---- MODULE Spec2Model ----
(***************************************************************************)
(* Model of the dual-encoding struct code generator of slicec-cs:          *)
(*   tools/slicec-cs/src/generators/struct_generator.rs                    *)
(* generate_struct builds the decode constructor and the Encode method of  *)
(* a Slice struct; generate_encoding_blocks merges the Slice1 and Slice2   *)
(* field blocks into one block, a guarded block or an if/else.             *)
(*                                                                         *)
(* A CodeBlock is a sequence of lines [ind, text]: ind is the indentation  *)
(* level, text the line's characters.                                      *)
(***************************************************************************)
EXTENDS Integers, Sequences, FiniteSets, TLC

\* Bound: the longest field list a struct is given.
MaxFields == 2

Slice1 == "Slice1"
Slice2 == "Slice2"
Encodings == {Slice1, Slice2}

(***************************************************************************)
(* The kinds of field the strategy table distinguishes.                    *)
(*   plain         non-tagged, same instruction under both encodings       *)
(*   varying       non-tagged, the type's own layout differs per encoding  *)
(*   tagged        tagged, framed by a different tag header per encoding   *)
(*   tagOnly       tagged, no instruction at all under Slice1              *)
(*   decodeDefect  a defective decode strategy: an instruction under       *)
(*                 Slice1 and none under Slice2 (plain when encoding)      *)
(*   encodeDefect  the same defect in the encode strategy                  *)
(***************************************************************************)
FieldKinds == {"plain", "varying", "tagged", "tagOnly", "decodeDefect", "encodeDefect"}

\* SupportedEncodings values: ordered, oldest first; the empty one is the
\* `[]` arm of generate_encoding_blocks.
SupportedEncodingsValues == {<<>>, <<Slice1>>, <<Slice2>>, <<Slice1, Slice2>>}

KindLists == UNION {[1..n -> FieldKinds] : n \in 0..MaxFields}

\* struct_def.fields(): the fields in declaration order, named by position.
Fields(kinds) == [i \in 1..Len(kinds) |-> [name |-> "F" \o ToString(i), kind |-> kinds[i]]]

---------------------------------------------------------------------------
(* CodeBlock (slicec::code_block) as the generator uses it.                *)

Line(text) == [ind |-> 0, text |-> text]

\* writeln!(code, s): append one line; a blank string writes nothing.
writeln(code, s) == IF s = "" THEN code ELSE Append(code, Line(s))

\* CodeBlock::indent: every line one level deeper.
indent(code) == [i \in 1..Len(code) |-> [ind |-> code[i].ind + 1, text |-> code[i].text]]

\* CodeBlock::is_empty.
is_empty(code) == Len(code) = 0

RECURSIVE Pad(_)
Pad(n) == IF n = 0 THEN "" ELSE "    " \o Pad(n - 1)

RECURSIVE Render(_, _)
Render(code, i) ==
    IF i > Len(code) THEN ""
    ELSE Pad(code[i].ind) \o code[i].text
         \o (IF i < Len(code) THEN "\n" ELSE "") \o Render(code, i + 1)

\* CodeBlock::to_string: the rendered text, lines joined by newlines.
to_string(code) == Render(code, 1)

---------------------------------------------------------------------------
(* The block synthesizer: encode_fields / decode_fields.                   *)

Stmt(is_encode, name, call) ==
    IF is_encode
    THEN "encoder.Encode" \o call \o "(this." \o name \o ");"
    ELSE "this." \o name \o " = decoder.Decode" \o call \o "();"

\* instructionsFor(field, encoding, direction): the statements of one field.
instructionsFor(field, encoding, is_encode) ==
    CASE field.kind = "plain" -> <<Stmt(is_encode, field.name, "Int32")>>
      [] field.kind = "varying" -> <<Stmt(is_encode, field.name, encoding \o "Size")>>
      [] field.kind = "tagged" -> <<Stmt(is_encode, field.name, encoding \o "Tagged")>>
      [] field.kind = "tagOnly" ->
            IF encoding = Slice1 THEN <<>> ELSE <<Stmt(is_encode, field.name, "Tagged")>>
      [] field.kind = "decodeDefect" ->
            IF ~is_encode /\ encoding = Slice2 THEN <<>>
            ELSE <<Stmt(is_encode, field.name, "Int32")>>
      [] field.kind = "encodeDefect" ->
            IF is_encode /\ encoding = Slice2 THEN <<>>
            ELSE <<Stmt(is_encode, field.name, "Int32")>>

RECURSIVE synthesize(_, _, _, _)
synthesize(fields, encoding, is_encode, i) ==
    IF i > Len(fields) THEN <<>>
    ELSE LET ins == instructionsFor(fields[i], encoding, is_encode)
         IN  [k \in 1..Len(ins) |-> Line(ins[k])]
             \o synthesize(fields, encoding, is_encode, i + 1)

encode_fields(fields, encoding) == synthesize(fields, encoding, TRUE, 1)

decode_fields(fields, encoding) == synthesize(fields, encoding, FALSE, 1)

---------------------------------------------------------------------------
(* generate_encoding_blocks: the encoding merger.                          *)

\* The encoding tag of the live encoder/decoder the generated code reads.
encoding_variable(is_encode) == IF is_encode THEN "encoder.Encoding" ELSE "decoder.Encoding"

\* Mutant: the `[]` arm is missing, an empty set falls to the `_` arm.
MatchArm_EmptyAsBoth(supported_encodings) ==
    IF Len(supported_encodings) = 1 THEN "single" ELSE "both"

\* Mutant: the `[encoding]` arm is missing, one encoding falls to the `_` arm.
MatchArm_SingleAsBoth(supported_encodings) ==
    IF Len(supported_encodings) = 0 THEN "empty" ELSE "both"

\* match supported_encodings[..] { [] => .., [encoding] => .., _ => .. }
MatchArm(supported_encodings) ==
    CASE Len(supported_encodings) = 0 -> "empty"
      [] Len(supported_encodings) = 1 -> "single"
      [] OTHER -> "both"

\* Mutant: the emptiness tests come before the equality test.
MergeArm_EmptinessFirst(slice1_block, slice2_block) ==
    IF is_empty(slice1_block) /\ ~is_empty(slice2_block) THEN "slice2_only"
    ELSE IF ~is_empty(slice1_block) /\ ~is_empty(slice2_block) THEN "if_else"
    ELSE IF to_string(slice1_block) = to_string(slice2_block) THEN "same"
    ELSE "unreachable"

\* Mutant: the single-armed guard's test is missing.
MergeArm_NoGuardTest(slice1_block, slice2_block) ==
    IF to_string(slice1_block) = to_string(slice2_block) THEN "same"
    ELSE IF ~is_empty(slice2_block) THEN "if_else"
    ELSE "unreachable"

\* Mutant: the last case returns a block instead of aborting.
MergeArm_FatalReturnsBlock(slice1_block, slice2_block) ==
    IF to_string(slice1_block) = to_string(slice2_block) THEN "same"
    ELSE IF is_empty(slice1_block) /\ ~is_empty(slice2_block) THEN "slice2_only"
    ELSE IF ~is_empty(slice1_block) /\ ~is_empty(slice2_block) THEN "if_else"
    ELSE "same"

\* Mutant: the two-armed branch tests the Slice1 block alone.
MergeArm_BranchOnSlice1Only(slice1_block, slice2_block) ==
    IF to_string(slice1_block) = to_string(slice2_block) THEN "same"
    ELSE IF is_empty(slice1_block) /\ ~is_empty(slice2_block) THEN "slice2_only"
    ELSE IF ~is_empty(slice1_block) THEN "if_else"
    ELSE "unreachable"

\* The tests on the two blocks, in the order the code makes them.
MergeArm(slice1_block, slice2_block) ==
    IF to_string(slice1_block) = to_string(slice2_block) THEN "same"
    ELSE IF is_empty(slice1_block) /\ ~is_empty(slice2_block) THEN "slice2_only"
    ELSE IF ~is_empty(slice1_block) /\ ~is_empty(slice2_block) THEN "if_else"
    ELSE "unreachable"

\* Mutant: the guard compares with == instead of !=.
GuardFormat_Eq(variable, slice2_block) ==
    <<Line("if (" \o variable \o " == SliceEncoding.Slice1)"), Line("{")>>
    \o indent(slice2_block)
    \o <<Line("}")>>

\* if ({encoding_variable} != SliceEncoding.Slice1) // Slice2 only { slice2_block }
GuardFormat(variable, slice2_block) ==
    <<Line("if (" \o variable \o " != SliceEncoding.Slice1) // Slice2 only"), Line("{")>>
    \o indent(slice2_block)
    \o <<Line("}")>>

\* Mutant: the two blocks are bound to the wrong arms.
BranchFormat_Swapped(variable, slice1_block, slice2_block) ==
    <<Line("if (" \o variable \o " == SliceEncoding.Slice1)"), Line("{")>>
    \o indent(slice2_block)
    \o <<Line("}"), Line("else // Slice2"), Line("{")>>
    \o indent(slice1_block)
    \o <<Line("}")>>

\* if ({encoding_variable} == SliceEncoding.Slice1) { slice1_block } else // Slice2 { slice2_block }
BranchFormat(variable, slice1_block, slice2_block) ==
    <<Line("if (" \o variable \o " == SliceEncoding.Slice1)"), Line("{")>>
    \o indent(slice1_block)
    \o <<Line("}"), Line("else // Slice2"), Line("{")>>
    \o indent(slice2_block)
    \o <<Line("}")>>

Returned(code, requested) == [ok |-> TRUE, msg |-> "", code |-> code, calls |-> requested]

\* unreachable!(msg): the generation panics and returns nothing.
Unreachable(msg, requested) == [ok |-> FALSE, msg |-> msg, code |-> <<>>, calls |-> requested]

NoEncodingsMsg == "No supported encodings"
EmptySlice2Msg ==
    "it is not possible to have an empty Slice2 encoding block with a non empty Slice1 encoding block"

\* The result of one call: whether it returned, the block returned, and the
\* encodings whose block it asked block_source_fn for, in order.
generate_encoding_blocks(fields, supported_encodings, is_encode) ==
    LET block_source_fn(encoding) ==
            IF is_encode THEN encode_fields(fields, encoding)
            ELSE decode_fields(fields, encoding)
        arm == MatchArm(supported_encodings)
    IN  CASE arm = "empty" -> Unreachable(NoEncodingsMsg, <<>>)
          [] arm = "single" ->
                Returned(block_source_fn(supported_encodings[1]), <<supported_encodings[1]>>)
          [] OTHER ->
                LET slice1_block == block_source_fn(Slice1)
                    slice2_block == block_source_fn(Slice2)
                    merge == MergeArm(slice1_block, slice2_block)
                    requested == <<Slice1, Slice2>>
                IN  CASE merge = "same" -> Returned(slice2_block, requested)
                      [] merge = "slice2_only" ->
                            Returned(GuardFormat(encoding_variable(is_encode), slice2_block),
                                     requested)
                      [] merge = "if_else" ->
                            Returned(BranchFormat(encoding_variable(is_encode),
                                                  slice1_block, slice2_block), requested)
                      [] OTHER -> Unreachable(EmptySlice2Msg, requested)

---------------------------------------------------------------------------
(* generate_struct: the decode constructor and the Encode method.          *)

SkipTaggedStmt == "decoder.SkipTagged();"
TagEndMarkerStmt == "encoder.EncodeVarInt32(Slice2Definitions.TagEndMarker);"

\* Mutant: the compactness test is inverted.
AppendSkipTagged_Inverted(body, compact) ==
    IF compact THEN writeln(body, "decoder.SkipTagged();") ELSE body

\* if !struct_def.is_compact { writeln!(decode_body, "decoder.SkipTagged();"); }
AppendSkipTagged(body, compact) ==
    IF ~compact THEN writeln(body, SkipTaggedStmt) ELSE body

\* if !struct_def.is_compact { writeln!(encode_body, "...TagEndMarker);"); }
AppendTagEndMarker(body, compact) ==
    IF ~compact THEN writeln(body, TagEndMarkerStmt) ELSE body

VARIABLES
    kinds,                \* the struct's fields, by kind, in declaration order
    is_compact,           \* struct_def.is_compact
    supported_encodings,  \* struct_def.supported_encodings()
    pc,                   \* position in generate_struct
    decode_body,          \* the decode constructor's body
    encode_body,          \* the Encode method's body
    builder,              \* the function blocks added to the ContainerBuilder
    result,               \* what generate_struct returned (<<>>: nothing)
    calls,                \* the block_source_fn calls made: [is_encode, encoding]
    panic                 \* the message generation aborted with ("": none)

vars == <<kinds, is_compact, supported_encodings, pc, decode_body, encode_body,
          builder, result, calls, panic>>

fields == Fields(kinds)

Init ==
    /\ kinds \in KindLists
    /\ is_compact \in BOOLEAN
    /\ supported_encodings \in SupportedEncodingsValues
    /\ pc = "decode"
    /\ decode_body = <<>>
    /\ encode_body = <<>>
    /\ builder = <<>>
    /\ result = <<>>
    /\ calls = <<>>
    /\ panic = ""

Logged(r, is_encode) ==
    calls \o [i \in 1..Len(r.calls) |-> [is_encode |-> is_encode, encoding |-> r.calls[i]]]

\* let mut decode_body = generate_encoding_blocks(&fields, .., false);
DecodeBlocks ==
    /\ pc = "decode"
    /\ LET r == generate_encoding_blocks(fields, supported_encodings, FALSE)
       IN  /\ calls' = Logged(r, FALSE)
           /\ IF r.ok
              THEN /\ decode_body' = r.code
                   /\ pc' = "decode_framing"
                   /\ panic' = panic
              ELSE /\ pc' = "aborted"
                   /\ panic' = r.msg
                   /\ decode_body' = decode_body
    /\ UNCHANGED <<kinds, is_compact, supported_encodings, encode_body, builder, result>>

\* the tag-skip framing, then builder.add_block(<decode constructor>)
DecodeFraming ==
    /\ pc = "decode_framing"
    /\ decode_body' = AppendSkipTagged(decode_body, is_compact)
    /\ builder' = Append(builder, [fn |-> "decode", body |-> decode_body'])
    /\ pc' = "encode"
    /\ UNCHANGED <<kinds, is_compact, supported_encodings, encode_body, result, calls, panic>>

\* let mut encode_body = generate_encoding_blocks(&fields, .., true);
EncodeBlocks ==
    /\ pc = "encode"
    /\ LET r == generate_encoding_blocks(fields, supported_encodings, TRUE)
       IN  /\ calls' = Logged(r, TRUE)
           /\ IF r.ok
              THEN /\ encode_body' = r.code
                   /\ pc' = "encode_framing"
                   /\ panic' = panic
              ELSE /\ pc' = "aborted"
                   /\ panic' = r.msg
                   /\ encode_body' = encode_body
    /\ UNCHANGED <<kinds, is_compact, supported_encodings, decode_body, builder, result>>

\* the end-of-tags framing, then builder.add_block(<Encode method>)
EncodeFraming ==
    /\ pc = "encode_framing"
    /\ encode_body' = AppendTagEndMarker(encode_body, is_compact)
    /\ builder' = Append(builder, [fn |-> "encode", body |-> encode_body'])
    /\ pc' = "build"
    /\ UNCHANGED <<kinds, is_compact, supported_encodings, decode_body, result, calls, panic>>

\* builder.build()
Build ==
    /\ pc = "build"
    /\ result' = builder
    /\ pc' = "done"
    /\ UNCHANGED <<kinds, is_compact, supported_encodings, decode_body, encode_body,
                   builder, calls, panic>>

Next == DecodeBlocks \/ DecodeFraming \/ EncodeBlocks \/ EncodeFraming \/ Build

Spec == Init /\ [][Next]_vars

---------------------------------------------------------------------------
(* The generated code at run time.                                         *)

IfOldHeaders ==
    {"if (decoder.Encoding == SliceEncoding.Slice1)",
     "if (encoder.Encoding == SliceEncoding.Slice1)"}
IfNotOldHeaders ==
    {"if (decoder.Encoding != SliceEncoding.Slice1) // Slice2 only",
     "if (encoder.Encoding != SliceEncoding.Slice1) // Slice2 only"}
ElseHeader == "else // Slice2"
BranchTexts == IfOldHeaders \cup IfNotOldHeaders \cup {ElseHeader, "{", "}"}

\* The statements the lines from i on execute when the live encoder's or
\* decoder's encoding is e. inArm: inside the braces of an arm; taken:
\* whether the condition of the current (or last) arm held.
RECURSIVE ExecFrom(_, _, _, _, _)
ExecFrom(code, i, e, inArm, taken) ==
    IF i > Len(code) THEN <<>>
    ELSE LET t == code[i].text
         IN  CASE t \in IfOldHeaders -> ExecFrom(code, i + 1, e, FALSE, e = Slice1)
               [] t \in IfNotOldHeaders -> ExecFrom(code, i + 1, e, FALSE, e # Slice1)
               [] t = ElseHeader -> ExecFrom(code, i + 1, e, FALSE, ~taken)
               [] t = "{" -> ExecFrom(code, i + 1, e, TRUE, taken)
               [] t = "}" -> ExecFrom(code, i + 1, e, FALSE, taken)
               [] OTHER ->
                    (IF ~inArm \/ taken THEN <<t>> ELSE <<>>)
                    \o ExecFrom(code, i + 1, e, inArm, taken)

Exec(code, e) == ExecFrom(code, 1, e, FALSE, FALSE)

---------------------------------------------------------------------------
(* Vocabulary of the properties.                                           *)

Texts(code) == [i \in 1..Len(code) |-> code[i].text]
Range(seq) == {seq[i] : i \in 1..Len(seq)}
Count(code, text) == Cardinality({i \in 1..Len(code) : code[i].text = text})
NoBranchText(code) == \A i \in 1..Len(code) : code[i].text \notin BranchTexts

\* Directions: FALSE is decode, TRUE is encode (is_encode).
Directions == BOOLEAN

\* The block the synthesizer gives for direction d and encoding e.
Src(d, e) == IF d THEN encode_fields(fields, e) ELSE decode_fields(fields, e)

Both == supported_encodings = <<Slice1, Slice2>>

\* The merge of direction d has just returned: its body holds the merged block.
MergedAt(d) == pc = (IF d THEN "encode_framing" ELSE "decode_framing")
MergedCode(d) == IF d THEN encode_body ELSE decode_body

\* Generation aborted in the merge of direction d.
AbortedIn(d) == pc = "aborted" /\ Len(builder) = (IF d THEN 1 ELSE 0)

\* The merge of direction d has been called.
Attempted(d) ==
    IF d THEN pc \in {"encode_framing", "build", "done"} \/ AbortedIn(TRUE)
    ELSE pc # "decode"

OldHeader(d) ==
    IF d THEN "if (encoder.Encoding == SliceEncoding.Slice1)"
    ELSE "if (decoder.Encoding == SliceEncoding.Slice1)"
NotOldHeader(d) ==
    IF d THEN "if (encoder.Encoding != SliceEncoding.Slice1) // Slice2 only"
    ELSE "if (decoder.Encoding != SliceEncoding.Slice1) // Slice2 only"

Unequal(d) == to_string(Src(d, Slice1)) # to_string(Src(d, Slice2))

---------------------------------------------------------------------------
(* Properties.                                                             *)

\* C1: whenever a merge returns, running the returned code with the live
\* encoding equal to a supported encoding e executes exactly the statements
\* of the block synthesized for e, in order.
C1_RuntimeDispatch ==
    \A d \in Directions :
        MergedAt(d) =>
            \A e \in Range(supported_encodings) :
                Exec(MergedCode(d), e) = Texts(Src(d, e))

\* C1 witness: an Encode merge returned a single-armed guard, which runs
\* nothing under Slice1 and the Slice2 block under Slice2.
C1_Witness ==
    /\ pc = "encode_framing"
    /\ Both
    /\ Exec(encode_body, Slice1) = <<>>
    /\ Exec(encode_body, Slice2) # <<>>
    /\ Exec(encode_body, Slice2) = Texts(Src(TRUE, Slice2))

\* C2: both encodings, both blocks non-empty and textually unequal: the merge
\* returns exactly `if (== Slice1) { slice1 block } else { slice2 block }`,
\* the bodies being the two blocks line for line (indentation aside).
C2_ExhaustiveBranch ==
    \A d \in Directions :
        (/\ Both
         /\ Attempted(d)
         /\ ~is_empty(Src(d, Slice1))
         /\ ~is_empty(Src(d, Slice2))
         /\ Unequal(d))
        => /\ ~AbortedIn(d)
           /\ MergedAt(d) =>
                /\ Texts(MergedCode(d)) =
                      <<OldHeader(d), "{">> \o Texts(Src(d, Slice1))
                      \o <<"}", ElseHeader, "{">> \o Texts(Src(d, Slice2)) \o <<"}">>
                /\ Count(MergedCode(d), OldHeader(d)) = 1
                /\ Count(MergedCode(d), ElseHeader) = 1

\* C2 witness: a decode merge returned the two-armed branch for two
\* non-empty, different blocks.
C2_Witness ==
    /\ pc = "decode_framing"
    /\ Both
    /\ ~is_empty(Src(FALSE, Slice1))
    /\ ~is_empty(Src(FALSE, Slice2))
    /\ Unequal(FALSE)
    /\ Count(decode_body, ElseHeader) = 1

\* C3: both encodings, Slice1 block empty and Slice2 block non-empty: the
\* merge returns one arm guarded by `!= Slice1` whose body is the Slice2
\* block, and no else arm.
C3_GuardMinimality ==
    \A d \in Directions :
        (/\ Both
         /\ Attempted(d)
         /\ is_empty(Src(d, Slice1))
         /\ ~is_empty(Src(d, Slice2)))
        => /\ ~AbortedIn(d)
           /\ MergedAt(d) =>
                /\ Texts(MergedCode(d)) =
                      <<NotOldHeader(d), "{">> \o Texts(Src(d, Slice2)) \o <<"}">>
                /\ Count(MergedCode(d), ElseHeader) = 0
                /\ Count(MergedCode(d), OldHeader(d)) = 0

\* C3 witness: a decode merge returned the single-armed guard.
C3_Witness ==
    /\ pc = "decode_framing"
    /\ Both
    /\ is_empty(Src(FALSE, Slice1))
    /\ ~is_empty(Src(FALSE, Slice2))
    /\ Count(decode_body, NotOldHeader(FALSE)) = 1

\* C4: both encodings and textually identical blocks (both empty included):
\* the merge returns that block, with no conditional text, and never aborts.
C4_Collapse ==
    \A d \in Directions :
        (Both /\ Attempted(d) /\ ~Unequal(d))
        => /\ ~AbortedIn(d)
           /\ MergedAt(d) =>
                /\ MergedCode(d) = Src(d, Slice2)
                /\ Texts(MergedCode(d)) = Texts(Src(d, Slice1))
                /\ NoBranchText(MergedCode(d))

\* C4 witness: an Encode merge collapsed two identical non-empty blocks.
C4_Witness ==
    /\ pc = "encode_framing"
    /\ Both
    /\ ~Unequal(TRUE)
    /\ ~is_empty(encode_body)

\* C5: exactly one supported encoding e: each merge returns the block
\* synthesized for e, unchanged, and no block of the other encoding is ever
\* asked for.
C5_SingleEncoding ==
    Len(supported_encodings) = 1 =>
        /\ pc # "aborted"
        /\ \A i \in 1..Len(calls) : calls[i].encoding = supported_encodings[1]
        /\ \A d \in Directions :
              /\ MergedAt(d) =>
                    /\ MergedCode(d) = Src(d, supported_encodings[1])
                    /\ NoBranchText(MergedCode(d))
              /\ Attempted(d) =>
                    Cardinality({i \in 1..Len(calls) : calls[i].is_encode = d}) = 1

\* C5 witness: a Slice1-only struct whose Slice2 block would differ.
C5_Witness ==
    /\ pc = "decode_framing"
    /\ supported_encodings = <<Slice1>>
    /\ ~is_empty(decode_body)
    /\ Unequal(FALSE)
    /\ ~is_empty(Src(FALSE, Slice2))

\* C6: both encodings: the merge of a direction aborts exactly when its
\* Slice1 block is non-empty and its Slice2 block is empty, with the fatal
\* internal-consistency message, and nothing is returned.
C6_FatalCase ==
    \A d \in Directions :
        (Both /\ Attempted(d)) =>
            /\ AbortedIn(d) <=> (~is_empty(Src(d, Slice1)) /\ is_empty(Src(d, Slice2)))
            /\ AbortedIn(d) =>
                  /\ panic = "it is not possible to have an empty Slice2 encoding block with a non empty Slice1 encoding block"
                  /\ result = <<>>
                  /\ MergedCode(d) = <<>>

\* C6 witness: the Encode merge aborted on a non-empty Slice1 block and an
\* empty Slice2 block, after the decode merge had returned.
C6_Witness ==
    /\ Both
    /\ AbortedIn(TRUE)
    /\ ~is_empty(Src(TRUE, Slice1))
    /\ is_empty(Src(TRUE, Slice2))
    /\ Len(kinds) = 1

\* The merged block of direction d, as the merger returns it.
Merged(d) == generate_encoding_blocks(fields, supported_encodings, d).code

\* The body of direction d as handed to the builder.
Body(d) == builder[IF d THEN 2 ELSE 1].body
FramingStmt(d) == IF d THEN TagEndMarkerStmt ELSE SkipTaggedStmt

\* C7: a body handed to the builder is, for a non-compact struct, the merged
\* block followed by exactly one framing statement, last, outside any arm
\* (it runs under either encoding); for a compact struct it is the merged
\* block and holds no framing statement.
C7_FramingPlacement ==
    /\ \A d \in Directions :
          Len(builder) >= (IF d THEN 2 ELSE 1) =>
              /\ builder[IF d THEN 2 ELSE 1].fn = (IF d THEN "encode" ELSE "decode")
              /\ IF is_compact
                 THEN /\ Body(d) = Merged(d)
                      /\ Count(Body(d), FramingStmt(d)) = 0
                 ELSE /\ Body(d) = Append(Merged(d), [ind |-> 0, text |-> FramingStmt(d)])
                      /\ Count(Body(d), FramingStmt(d)) = 1
                      /\ \A e \in Encodings :
                            LET run == Exec(Body(d), e)
                            IN  /\ run[Len(run)] = FramingStmt(d)
                                /\ Cardinality({i \in 1..Len(run) : run[i] = FramingStmt(d)}) = 1
    /\ pc = "done" => result = builder /\ Len(result) = 2

\* C7 witness: a non-compact struct generated to the end, whose two merges
\* were single-armed guards: the framing still runs under Slice1.
C7_Witness ==
    /\ pc = "done"
    /\ ~is_compact
    /\ Both
    /\ Count(result[1].body, NotOldHeader(FALSE)) = 1
    /\ Count(result[2].body, NotOldHeader(TRUE)) = 1
    /\ Exec(result[1].body, Slice1) = <<SkipTaggedStmt>>
    /\ Exec(result[2].body, Slice1) = <<TagEndMarkerStmt>>

\* C8, as stated: whenever both blocks are requested and generation
\* completes, at least one of the two blocks is non-empty.
C8_OneBlockNonEmpty ==
    (Both /\ pc = "done") =>
        \A d \in Directions :
            ~(is_empty(Src(d, Slice1)) /\ is_empty(Src(d, Slice2)))

\* C8, amended: whenever both blocks were requested and the merge returned,
\* the Slice2 block is non-empty if the Slice1 block is; both may be empty.
C8_NewEmptyOnlyIfOldEmpty ==
    \A d \in Directions :
        (/\ Both
         /\ Attempted(d)
         /\ ~AbortedIn(d)
         /\ \E i \in 1..Len(calls) : calls[i] = [is_encode |-> d, encoding |-> Slice1]
         /\ \E i \in 1..Len(calls) : calls[i] = [is_encode |-> d, encoding |-> Slice2])
        => (is_empty(Src(d, Slice2)) => is_empty(Src(d, Slice1)))

\* C8 witness: a generation that completed with both blocks requested and
\* both empty, in both directions.
C8_Witness ==
    /\ pc = "done"
    /\ Both
    /\ Len(calls) = 4
    /\ \A d \in Directions : is_empty(Src(d, Slice1)) /\ is_empty(Src(d, Slice2))

\* C9: with no supported encoding, generation aborts in the decode merge,
\* the first it attempts, before any block is synthesized, and nothing is
\* emitted.
C9_NoEncodings ==
    supported_encodings = <<>> =>
        /\ pc \in {"decode", "aborted"}
        /\ calls = <<>>
        /\ builder = <<>>
        /\ result = <<>>
        /\ decode_body = <<>>
        /\ encode_body = <<>>
        /\ pc = "aborted" => panic = "No supported encodings"
        /\ pc = "decode" => panic = ""

\* C9 witness: a struct with fields and no supported encoding has aborted.
C9_Witness ==
    /\ supported_encodings = <<>>
    /\ pc = "aborted"
    /\ Len(kinds) = MaxFields
    /\ panic = "No supported encodings"

====
